---- MODULE Spec2Model ----
(***************************************************************************)
(* A model of the particle filter node of robot_localization/pf.py.        *)
(*                                                                         *)
(* Two threads share the node object: the executor thread (rclpy.spin)     *)
(* runs the callbacks scan_received and update_initial_pose, and the       *)
(* thread started in __init__ runs loop_wrapper, which calls run_loop      *)
(* forever.  No lock protects the shared attributes.                       *)
(*                                                                         *)
(* Units.  Lengths are counted in tenths of a distance unit (d_thresh =    *)
(* 0.2 is 2), angles in twelfths of pi (a_thresh = pi/6 is 2, pi/4 is 3,   *)
(* 2*pi is 24).  Weights are exact rationals <<n, d>>; a pair with d = 0   *)
(* is one of the IEEE specials (<<0,0>> is NaN, <<1,0>> is +infinity).     *)
(* Rounding of the floating point arithmetic is not modelled.              *)
(***************************************************************************)
EXTENDS Integers, Sequences, FiniteSets

(***************************************************************************)
(* Bounds of the model.                                                    *)
(***************************************************************************)
\* the number of particles (100 in the source, line 78), scaled down
n_particles == 2
\* the number of scan messages delivered to scan_received
MaxScans == 3
\* the number of initialpose messages delivered to update_initial_pose
MaxInit == 1
\* the number of times the robot's odometry pose changes
MaxMoves == 1

(***************************************************************************)
(* Program constants, in the units above.                                  *)
(***************************************************************************)
d_thresh == 2
a_thresh == 2
\* errors[np.isnan(errors)] = 5
NanError == 50
\* np.percentile(weights, 20)
ResamplePercent == 20
\* pi/4 of np.random.uniform(-np.pi/4, np.pi/4)
QuarterPi == 3
Pi == 12
TwoPi == 24

None == 0
NoPose == <<>>

(***************************************************************************)
(* The inputs the environment can deliver.                                 *)
(***************************************************************************)
\* the odometry poses the robot can be at (it starts at the first)
StartPose == <<0, 0, 0>>
OdomPoses ==
  { <<0, 0, 0>>, <<2, 0, 0>>, <<3, 0, 0>>, <<0, 3, 0>>, <<0, 0, 2>>, <<0, 0, 3>> }
\* mean poses an initialpose message can carry
InitPoses == { <<0, 0, 0>>, <<1, 0, 9>> }
\* the staleness a lookup reports: absent (Python's None), or a duration
NoStaleness == [has |-> FALSE, v |-> 0]
Duration(v) == [has |-> TRUE, v |-> v]
\* answers of occupancy_field.get_closest_obstacle_distance (<<0, 0>>: nan)
MapAnswers == { <<0, 0>>, <<20, 1>>, <<30, 1>> }
\* np.min(r) of a scan
MinRanges == { 20 }
\* values np.random.uniform(-pi/4, pi/4) is sampled at
Perturbations == { -QuarterPi, QuarterPi }

(***************************************************************************)
(* Extended rational arithmetic (numpy float64 without rounding).          *)
(***************************************************************************)
RECURSIVE GCD(_, _)
GCD(a, b) == IF b = 0 THEN a ELSE GCD(b, a % b)

Abs(a) == IF a < 0 THEN -a ELSE a

FNaN == <<0, 0>>
FInf == <<1, 0>>
IsNaN(q) == q = FNaN
IsInf(q) == q = FInf
IsNum(q) == q[2] > 0

Rat(n, d) == LET g == GCD(Abs(n), d) IN <<n \div g, d \div g>>
FZero == <<0, 1>>
FOne == <<1, 1>>

\* a / b of two non-negative floats
FDiv(a, b) ==
  IF IsNaN(a) \/ IsNaN(b) THEN FNaN
  ELSE IF IsInf(a) THEN (IF IsInf(b) THEN FNaN ELSE FInf)
  ELSE IF IsInf(b) THEN FZero
  ELSE IF b[1] = 0 THEN (IF a[1] = 0 THEN FNaN ELSE FInf)
  ELSE Rat(a[1] * b[2], a[2] * b[1])

\* a + b of two non-negative floats
FAdd(a, b) ==
  IF IsNaN(a) \/ IsNaN(b) THEN FNaN
  ELSE IF IsInf(a) \/ IsInf(b) THEN FInf
  ELSE Rat(a[1] * b[2] + b[1] * a[2], a[2] * b[2])

\* a + t * (b - a) for numbers a, b and a rational t
FLerp(a, b, t) ==
  Rat(a[1] * b[2] * t[2] + t[1] * (b[1] * a[2] - a[1] * b[2]), a[2] * b[2] * t[2])

\* comparisons of numbers
FLeq(a, b) == a[1] * b[2] <= b[1] * a[2]
FLess(a, b) == a[1] * b[2] < b[1] * a[2]

RECURSIVE FSum(_)
FSum(s) == IF s = <<>> THEN FZero ELSE FAdd(s[1], FSum(Tail(s)))

(***************************************************************************)
(* Trigonometry on the grid of multiples of pi/12, scaled by 1000.         *)
(***************************************************************************)
CosTable == <<1000, 966, 866, 707, 500, 259, 0>>
Cos(t) ==
  LET k == t % TwoPi
      m == IF k > Pi THEN TwoPi - k ELSE k
  IN IF m <= 6 THEN CosTable[m + 1] ELSE -CosTable[Pi - m + 1]
Sin(t) == Cos(t - 6)
Round1000(a) == (a + 500) \div 1000

\* np.arctan2(sin t, cos t): the angle in [-pi, pi]
ArcTan2Of(t) ==
  LET k == t % TwoPi
  IN IF k = Pi THEN (IF t < 0 THEN -Pi ELSE Pi)
     ELSE IF k > Pi THEN k - TwoPi ELSE k

(***************************************************************************)
(* Particle and its conversion to a pose message.                          *)
(***************************************************************************)
\* Particle(x, y, theta, w), w defaulting to 1.0
Particle(x, y, theta) == [x |-> x, y |-> y, theta |-> theta, w |-> FOne]

\* The quaternion of quaternion_from_euler(0, 0, theta) is
\* (0, 0, sin(theta/2), cos(theta/2)): it is determined by theta modulo 4*pi,
\* which stands for it here.
as_pose(p) == <<p.x, p.y, p.theta % (2 * TwoPi)>>

Indices(cloud) == 1 .. Len(cloud)
Weights(cloud) == [i \in Indices(cloud) |-> cloud[i].w]

(***************************************************************************)
(* moved_far_enough_to_update                                              *)
(***************************************************************************)
\* variant: the comparisons taken as >= (a displacement of exactly the
\* threshold would start an update)
moved_far_enough_ge(new, cur) ==
  \/ Abs(new[1] - cur[1]) >= d_thresh
  \/ Abs(new[2] - cur[2]) >= d_thresh
  \/ Abs(new[3] - cur[3]) >= a_thresh

moved_far_enough_to_update(new, cur) ==
  \/ Abs(new[1] - cur[1]) > d_thresh
  \/ Abs(new[2] - cur[2]) > d_thresh
  \/ Abs(new[3] - cur[3]) > a_thresh

(***************************************************************************)
(* update_robot_pose: np.argmax returns the first index of the maximum.    *)
(***************************************************************************)
\* variant: the last index of the maximum
ArgMaxLast(w) ==
  CHOOSE i \in 1 .. Len(w) :
    /\ \A j \in 1 .. Len(w) : FLeq(w[j], w[i])
    /\ \A j \in (i + 1) .. Len(w) : FLess(w[j], w[i])

ArgMax(w) ==
  CHOOSE i \in 1 .. Len(w) :
    /\ \A j \in 1 .. Len(w) : FLeq(w[j], w[i])
    /\ \A j \in 1 .. (i - 1) : FLess(w[j], w[i])

(***************************************************************************)
(* update_particles_with_odom: delta = inv(curr) @ new, and every particle *)
(* is right-multiplied by delta.                                           *)
(***************************************************************************)
\* variant: the new pose taken for the displacement
DeltaOfAbsolute(cur, new) == new

\* <<dx, dy, dtheta>> of inv(create_pose(cur)) @ create_pose(new)
DeltaOf(cur, new) ==
  LET ex == new[1] - cur[1]
      ey == new[2] - cur[2]
  IN << Round1000(Cos(cur[3]) * ex + Sin(cur[3]) * ey),
        Round1000(Cos(cur[3]) * ey - Sin(cur[3]) * ex),
        new[3] - cur[3] >>

MoveParticle(p, delta) ==
  [p EXCEPT !.x = p.x + Round1000(Cos(p.theta) * delta[1] - Sin(p.theta) * delta[2]),
            !.y = p.y + Round1000(Sin(p.theta) * delta[1] + Cos(p.theta) * delta[2]),
            !.theta = ArcTan2Of(p.theta + delta[3])]

(***************************************************************************)
(* update_particles_with_laser: the weight function.                       *)
(***************************************************************************)
\* np.abs(particle_distance - robot_distance), nan replaced by 5
ErrorOf(dist, robot_distance) ==
  IF IsNaN(dist) THEN NanError ELSE Abs(dist[1] - robot_distance)

\* error_ratio = errors[0] / errors; weights = error_ratio / np.sum(error_ratio)
LaserWeights(errors) ==
  LET ratio == [i \in 1 .. Len(errors) |-> FDiv(<<errors[1], 1>>, <<errors[i], 1>>)]
      total == FSum(ratio)
  IN [i \in 1 .. Len(errors) |-> FDiv(ratio[i], total)]

\* variant: nan stored as it is
StoredWeightKeepNaN(w) == w

\* the value stored in particle i: nan is replaced by 0
StoredWeight(w) == IF IsNaN(w) THEN FZero ELSE w

(***************************************************************************)
(* resample_particles                                                      *)
(***************************************************************************)
\* the weights in ascending order
RECURSIVE SortAsc(_)
SortAsc(w) ==
  IF w = <<>> THEN <<>>
  ELSE LET m == CHOOSE i \in 1 .. Len(w) : \A j \in 1 .. Len(w) : FLeq(w[i], w[j])
       IN <<w[m]>> \o SortAsc([k \in 1 .. (Len(w) - 1) |-> IF k < m THEN w[k] ELSE w[k + 1]])

\* np.percentile(w, q) with linear interpolation, w non-empty
Percentile(w, q) ==
  LET s == SortAsc(w)
      num == q * (Len(w) - 1)
      lo == num \div 100
      frac == Rat(num % 100, 100)
  IN IF frac[1] = 0 THEN s[lo + 1] ELSE FLerp(s[lo + 1], s[lo + 2], frac)

\* np.where(weights <= weights_to_replace)[0], in ascending order
RECURSIVE SelectLeq(_, _, _)
SelectLeq(w, limit, i) ==
  IF i > Len(w) THEN <<>>
  ELSE (IF FLeq(w[i], limit) THEN <<i>> ELSE <<>>) \o SelectLeq(w, limit, i + 1)

\* variant: every particle selected for replacement
ToReplaceAll(w) == [i \in 1 .. Len(w) |-> i]

\* lines 235-236: the indices of the particles to replace
ToReplace(w) == SelectLeq(w, Percentile(w, ResamplePercent), 1)

\* np.random.choice(..., p = weights) raises ValueError unless p sums to 1
ChoiceAccepts(w) == FSum(w) = FOne
\* and draws only indices of positive probability
Drawable(w) == { i \in 1 .. Len(w) : FLess(FZero, w[i]) }

\* variant: the perturbation added to x as well
RECURSIVE OverwriteShifted(_, _, _, _, _)
OverwriteShifted(cloud, repl, donors, noise, k) ==
  IF k > Len(repl) THEN cloud
  ELSE LET d == cloud[donors[k]]
           c == [cloud EXCEPT ![repl[k]].x = d.x + noise[k],
                              ![repl[k]].y = d.y,
                              ![repl[k]].theta = d.theta + noise[k]]
       IN OverwriteShifted(c, repl, donors, noise, k + 1)

\* the loop of lines 242-246: particle repl[k] takes the current x, y of
\* particle donors[k] and its current theta plus noise[k], in order
RECURSIVE Overwrite(_, _, _, _, _)
Overwrite(cloud, repl, donors, noise, k) ==
  IF k > Len(repl) THEN cloud
  ELSE LET d == cloud[donors[k]]
           c == [cloud EXCEPT ![repl[k]].x = d.x,
                              ![repl[k]].y = d.y,
                              ![repl[k]].theta = d.theta + noise[k]]
       IN Overwrite(c, repl, donors, noise, k + 1)

(***************************************************************************)
(* initialize_particle_cloud                                               *)
(***************************************************************************)
\* variant: a loop that stops one particle short
RangeEndShort == n_particles - 1

\* range(self.n_particles) of line 293: the number of particles appended
RangeEnd == n_particles

\* delta_theta = 2*math.pi/self.n_particles
delta_theta == TwoPi \div n_particles

\* variant: every particle given the mean heading
SeedParticleSameTheta(xy_theta, i) == Particle(xy_theta[1], xy_theta[2], xy_theta[3])

\* the particle appended in iteration i of range(n_particles), i from 0
SeedParticle(xy_theta, i) ==
  Particle(xy_theta[1], xy_theta[2], xy_theta[3] + delta_theta * i)

(***************************************************************************)
(* The state.                                                              *)
(***************************************************************************)
VARIABLES
  scan_to_process,        \* the stamp of the pending scan, or None
  last_scan_timestamp,    \* the stamp of the last scan delivered, or None
  particle_cloud,         \* the sequence of particles
  current_odom_xy_theta,  \* the odometry reference, or NoPose ([])
  odom_pose,              \* self.odom_pose, or NoPose while the attribute is unset
  robot_pose,             \* self.robot_pose, or NoPose while the attribute is unset
  map_to_odom,            \* the arguments of the last fix_map_to_odom_transform
  warned,                 \* whether get_logger().warn was called
  published,              \* the publications: their number and the last message
  tf,                     \* what the transform buffer holds for the pending scan
  odom,                   \* the odometry pose the robot is at
  moves,                  \* how often the robot has moved
  preemptive,             \* whether a thread may be preempted inside an operation
  nscans,                 \* scan messages delivered so far
  ninit,                  \* initialpose messages delivered so far
  rl,                     \* the run-loop thread: its position and locals
  cb                      \* the executor thread: its position and locals

shared == << scan_to_process, last_scan_timestamp, particle_cloud,
             current_odom_xy_theta, odom_pose, robot_pose, map_to_odom,
             warned, published, tf >>
vars == << scan_to_process, last_scan_timestamp, particle_cloud,
           current_odom_xy_theta, odom_pose, robot_pose, map_to_odom,
           warned, published, tf, odom, moves, preemptive, nscans, ninit, rl, cb >>

\* no scan pending: nothing to look up
NoTf == [st |-> "none", pose |-> NoPose]

\* the locals of the run-loop thread between two calls of run_loop
RlIdle(last) ==
  [ pc |-> "idle", msg |-> None, new |-> NoPose, delta_t |-> NoStaleness,
    branch |-> "", xy |-> NoPose, i |-> 0,
    particle_distances |-> <<>>, robot_distance |-> 0, weights |-> <<>>,
    i_new_locations |-> <<>>, noise |-> <<>>,
    stages |-> <<>>, measured |-> <<>>, last |-> last ]

\* the locals of the executor thread between two callbacks
CbIdle == [ pc |-> "idle", msg |-> None, xy |-> NoPose, i |-> 0 ]

\* __init__, lines 95-101
Constructed ==
  /\ scan_to_process = None
  /\ last_scan_timestamp = None
  /\ particle_cloud = <<>>
  /\ current_odom_xy_theta = NoPose
  /\ odom_pose = NoPose
  /\ robot_pose = NoPose
  /\ map_to_odom = NoPose
  /\ warned = FALSE
  /\ published = [count |-> 0, stamp |-> None, particles |-> <<>>]
  /\ tf = NoTf
  /\ odom = StartPose
  /\ moves = 0
  /\ nscans = 0
  /\ ninit = 0
  /\ rl = RlIdle("")
  /\ cb = CbIdle

\* a thread is between two operations (or has ended)
RlQuiet == rl.pc \in {"idle", "dead"}
CbQuiet == cb.pc \in {"idle", "dead"}

\* when the executor thread, and when the run-loop thread, may take a step:
\* always if threads are preempted anywhere, else only while the other thread
\* is between two operations
CbTurn == preemptive \/ RlQuiet
RlTurn == preemptive \/ CbQuiet

(***************************************************************************)
(* update_robot_pose, run by either thread on the population as it is.     *)
(* np.argmax of an empty array raises ValueError.                          *)
(***************************************************************************)
PoseRaises == particle_cloud = <<>>

\* variant: the correction made without the test
HasOdomPoseUntested == TRUE

\* line 182: hasattr(self, 'odom_pose')
HasOdomPose == odom_pose # NoPose

UpdateRobotPose ==
  LET probable_particle == particle_cloud[ArgMax(Weights(particle_cloud))]
  IN /\ robot_pose' = as_pose(probable_particle)
     /\ IF HasOdomPose
        THEN /\ map_to_odom' = <<robot_pose', odom_pose>>
             /\ warned' = warned
        ELSE /\ warned' = TRUE
             /\ map_to_odom' = map_to_odom

(***************************************************************************)
(* The executor thread: scan_received and update_initial_pose.             *)
(***************************************************************************)
\* variant: the slot taken whatever it holds
SlotFreeAlways(slot) == TRUE

\* the test of line 311
SlotFree(slot) == slot = None

\* scan_received, lines 308-311: the stamp is recorded and the slot tested
ScanReceived ==
  /\ CbTurn
  /\ cb.pc = "idle"
  /\ nscans < MaxScans
  /\ nscans' = nscans + 1
  /\ last_scan_timestamp' = nscans + 1
  /\ IF SlotFree(scan_to_process)
     THEN cb' = [cb EXCEPT !.pc = "sr_store", !.msg = nscans + 1]
     ELSE cb' = CbIdle
  /\ UNCHANGED << scan_to_process, particle_cloud, current_odom_xy_theta, odom_pose,
                  robot_pose, map_to_odom, warned, published, tf, ninit, odom, moves, preemptive, rl >>

\* scan_received, line 312: the scan is stored.  The transform of its stamp
\* may be there already, may still come, or may predate the buffer.
ScanStore ==
  /\ CbTurn
  /\ cb.pc = "sr_store"
  /\ scan_to_process' = cb.msg
  /\ \E st \in {"wait", "ok", "expired"} : tf' = [st |-> st, pose |-> odom]
  /\ cb' = CbIdle
  /\ UNCHANGED << last_scan_timestamp, particle_cloud, current_odom_xy_theta,
                  odom_pose, robot_pose, map_to_odom, warned, published,
                  nscans, ninit, odom, moves, preemptive, rl >>

\* update_initial_pose and initialize_particle_cloud up to line 289
UpdateInitialPose ==
  /\ CbTurn
  /\ cb.pc = "idle"
  /\ ninit < MaxInit
  /\ ninit' = ninit + 1
  /\ \E xy_theta \in InitPoses :
       cb' = [cb EXCEPT !.pc = "ip_append", !.xy = xy_theta, !.i = 0]
  /\ particle_cloud' = <<>>
  /\ UNCHANGED << scan_to_process, last_scan_timestamp, current_odom_xy_theta,
                  odom_pose, robot_pose, map_to_odom, warned, published, tf,
                  nscans, odom, moves, preemptive, rl >>

\* one iteration of the loop of lines 293-295
CbInitAppend ==
  /\ CbTurn
  /\ cb.pc = "ip_append"
  /\ particle_cloud' = Append(particle_cloud, SeedParticle(cb.xy, cb.i))
  /\ cb' = [cb EXCEPT !.i = cb.i + 1,
                      !.pc = IF cb.i + 1 < RangeEnd THEN "ip_append" ELSE "ip_pose"]
  /\ UNCHANGED << scan_to_process, last_scan_timestamp, current_odom_xy_theta,
                  odom_pose, robot_pose, map_to_odom, warned, published, tf,
                  nscans, ninit, odom, moves, preemptive, rl >>

\* line 297; an exception leaves the callback and ends rclpy.spin
CbInitPose ==
  /\ CbTurn
  /\ cb.pc = "ip_pose"
  /\ IF PoseRaises
     THEN /\ cb' = [CbIdle EXCEPT !.pc = "dead"]
          /\ UNCHANGED << robot_pose, map_to_odom, warned >>
     ELSE /\ cb' = CbIdle
          /\ UpdateRobotPose
  /\ UNCHANGED << scan_to_process, last_scan_timestamp, particle_cloud,
                  current_odom_xy_theta, odom_pose, published, tf,
                  nscans, ninit, odom, moves, preemptive, rl >>

(***************************************************************************)
(* The robot drives: its odometry pose changes.                            *)
(***************************************************************************)
RobotMoves ==
  /\ moves < MaxMoves
  /\ moves' = moves + 1
  /\ odom' \in OdomPoses \ {odom}
  /\ UNCHANGED << shared, preemptive, nscans, ninit, rl, cb >>

(***************************************************************************)
(* The transform listener: the odometry that matches the pending scan      *)
(* arrives, or the buffer moves past the scan's stamp.                     *)
(***************************************************************************)
TfUpdate ==
  /\ tf.st = "wait"
  /\ \E st \in {"ok", "expired"} : tf' = [tf EXCEPT !.st = st]
  /\ UNCHANGED << scan_to_process, last_scan_timestamp, particle_cloud,
                  current_odom_xy_theta, odom_pose, robot_pose, map_to_odom,
                  warned, published, odom, moves, preemptive, nscans, ninit, rl, cb >>

(***************************************************************************)
(* The run-loop thread: loop_wrapper calls run_loop again and again.       *)
(***************************************************************************)
\* what get_matching_odom_pose can return for the pending scan
LookupResults ==
  CASE tf.st = "ok" -> { <<tf.pose, Duration(0)>> }
    [] tf.st = "expired" -> { <<NoPose, Duration(-1)>> }
    [] OTHER -> { <<NoPose, d>> : d \in {NoStaleness, Duration(0), Duration(1)} }

\* variant: a staleness of 0 taken as expired too
NeverResolvableLeq(delta_t) == delta_t.has /\ delta_t.v <= 0

\* line 141: delta_t is not None and delta_t < Duration(seconds=0.0)
NeverResolvable(delta_t) == delta_t.has /\ delta_t.v < 0

\* lines 132-133: no scan is pending
RunLoopNoScan ==
  /\ RlTurn
  /\ rl.pc = "idle"
  /\ scan_to_process = None
  /\ UNCHANGED vars

\* lines 134-144: the pending scan is looked up
RunLoopLookup ==
  /\ RlTurn
  /\ rl.pc = "idle"
  /\ scan_to_process # None
  /\ \E res \in LookupResults :
       LET new_pose == res[1]
           delta_t == res[2]
       IN IF new_pose = NoPose
          THEN IF NeverResolvable(delta_t)
               THEN /\ scan_to_process' = None
                    /\ tf' = NoTf
                    /\ rl' = [RlIdle("expired") EXCEPT !.delta_t = delta_t]
               ELSE /\ rl' = [RlIdle("retry") EXCEPT !.delta_t = delta_t]
                    /\ UNCHANGED << scan_to_process, tf >>
          ELSE /\ rl' = [RlIdle("resolved") EXCEPT !.pc = "convert",
                                                   !.msg = scan_to_process,
                                                   !.new = new_pose]
               /\ UNCHANGED << scan_to_process, tf >>
  /\ UNCHANGED << last_scan_timestamp, particle_cloud, current_odom_xy_theta,
                  odom_pose, robot_pose, map_to_odom, warned, published,
                  nscans, ninit, odom, moves, preemptive, cb >>

\* variant: the scan left in the slot
SlotKeptAfterConvert(slot) == slot

\* line 148: self.scan_to_process = None
SlotAfterConvert(slot) == None

\* lines 146-151: the slot is cleared and the odometry pose recorded
RunLoopConvert ==
  /\ RlTurn
  /\ rl.pc = "convert"
  /\ scan_to_process' = SlotAfterConvert(scan_to_process)
  /\ tf' = NoTf
  /\ odom_pose' = rl.new
  /\ rl' = [rl EXCEPT !.pc = "branch"]
  /\ UNCHANGED << last_scan_timestamp, particle_cloud, current_odom_xy_theta,
                  robot_pose, map_to_odom, warned, published, nscans, ninit, odom, moves, preemptive, cb >>

\* variant: the pose estimated after resampling
PipelineOrderPoseLast == <<"odom", "laser", "resample", "pose">>

\* lines 160-163: the stages of an update, in the order run_loop calls them
PipelineOrder == <<"odom", "laser", "pose", "resample">>

\* where run_loop continues after a stage has returned
AfterStage(stage) ==
  LET k == CHOOSE j \in 1 .. Len(PipelineOrder) : PipelineOrder[j] = stage
  IN IF k < Len(PipelineOrder) THEN PipelineOrder[k + 1] ELSE "publish"

\* variant: the empty population tested before the missing reference
BranchOfSeedFirst(cur, cloud, new) ==
  IF cloud = <<>> THEN "seed"
  ELSE IF cur = NoPose THEN "first"
  ELSE IF moved_far_enough_to_update(new, cur) THEN "update"
  ELSE "skip"

\* variant: the update started whatever the displacement
BranchOfNoThreshold(cur, cloud, new) ==
  IF cur = NoPose THEN "first"
  ELSE IF cloud = <<>> THEN "seed"
  ELSE "update"

\* lines 153-158: which branch the cycle takes
BranchOf(cur, cloud, new) ==
  IF cur = NoPose THEN "first"
  ELSE IF cloud = <<>> THEN "seed"
  ELSE IF moved_far_enough_to_update(new, cur) THEN "update"
  ELSE "skip"

RunLoopBranch ==
  /\ RlTurn
  /\ rl.pc = "branch"
  /\ LET b == BranchOf(current_odom_xy_theta, particle_cloud, rl.new)
     IN /\ rl' = [rl EXCEPT !.branch = b,
                            !.pc = CASE b = "first" -> "publish"
                                     [] b = "seed" -> "init_clear"
                                     [] b = "update" -> PipelineOrder[1]
                                     [] OTHER -> "publish"]
        /\ current_odom_xy_theta' =
             IF b = "first" THEN rl.new ELSE current_odom_xy_theta
  /\ UNCHANGED << scan_to_process, last_scan_timestamp, particle_cloud, odom_pose,
                  robot_pose, map_to_odom, warned, published, tf, nscans, ninit, odom, moves, preemptive, cb >>

\* initialize_particle_cloud(stamp), lines 287-289: the mean is the odometry pose
RlInitClear ==
  /\ RlTurn
  /\ rl.pc = "init_clear"
  /\ particle_cloud' = <<>>
  /\ rl' = [rl EXCEPT !.pc = "init_append", !.xy = odom_pose, !.i = 0]
  /\ UNCHANGED << scan_to_process, last_scan_timestamp, current_odom_xy_theta,
                  odom_pose, robot_pose, map_to_odom, warned, published, tf,
                  nscans, ninit, odom, moves, preemptive, cb >>

\* one iteration of the loop of lines 293-295
RlInitAppend ==
  /\ RlTurn
  /\ rl.pc = "init_append"
  /\ particle_cloud' = Append(particle_cloud, SeedParticle(rl.xy, rl.i))
  /\ rl' = [rl EXCEPT !.i = rl.i + 1,
                      !.pc = IF rl.i + 1 < RangeEnd THEN "init_append" ELSE "init_pose"]
  /\ UNCHANGED << scan_to_process, last_scan_timestamp, current_odom_xy_theta,
                  odom_pose, robot_pose, map_to_odom, warned, published, tf,
                  nscans, ninit, odom, moves, preemptive, cb >>

\* line 297; an exception leaves run_loop and ends the thread
RlInitPose ==
  /\ RlTurn
  /\ rl.pc = "init_pose"
  /\ IF PoseRaises
     THEN /\ rl' = [rl EXCEPT !.pc = "dead", !.last = "raised"]
          /\ UNCHANGED << robot_pose, map_to_odom, warned >>
     ELSE /\ rl' = [rl EXCEPT !.pc = "publish"]
          /\ UpdateRobotPose
  /\ UNCHANGED << scan_to_process, last_scan_timestamp, particle_cloud,
                  current_odom_xy_theta, odom_pose, published, tf,
                  nscans, ninit, odom, moves, preemptive, cb >>

\* variant: the reference left as it was
ReferenceKept(cur, new) == cur

\* lines 200 and 202: self.current_odom_xy_theta = new_odom_xy_theta
ReferenceAfterUpdate(cur, new) == new

\* update_particles_with_odom, lines 194-211
UpdateParticlesWithOdom ==
  /\ RlTurn
  /\ rl.pc = "odom"
  /\ LET new_odom_xy_theta == odom_pose
     IN /\ current_odom_xy_theta' =
             ReferenceAfterUpdate(current_odom_xy_theta, new_odom_xy_theta)
        /\ particle_cloud' =
             IF current_odom_xy_theta # NoPose
             THEN LET delta == DeltaOf(current_odom_xy_theta, new_odom_xy_theta)
                  IN [i \in Indices(particle_cloud) |->
                        MoveParticle(particle_cloud[i], delta)]
             ELSE particle_cloud
  /\ rl' = [rl EXCEPT !.pc = AfterStage("odom"), !.stages = Append(rl.stages, "odom")]
  /\ UNCHANGED << scan_to_process, last_scan_timestamp, odom_pose, robot_pose,
                  map_to_odom, warned, published, tf, nscans, ninit, odom, moves, preemptive, cb >>

\* the positions the map is asked about
Positions(cloud) == { <<cloud[i].x, cloud[i].y>> : i \in Indices(cloud) }

\* update_particles_with_laser, lines 255-266: the weights are computed from
\* the population as it is now; errors[0] of an empty array raises IndexError
UpdateParticlesWithLaser ==
  /\ RlTurn
  /\ rl.pc = "laser"
  /\ IF particle_cloud = <<>>
     THEN rl' = [rl EXCEPT !.pc = "dead", !.last = "raised",
                           !.stages = Append(rl.stages, "laser")]
     ELSE \E robot_distance \in MinRanges :
          \E closest \in [Positions(particle_cloud) -> MapAnswers] :
            LET errors == [i \in Indices(particle_cloud) |->
                             ErrorOf(closest[<<particle_cloud[i].x, particle_cloud[i].y>>],
                                     robot_distance)]
            IN rl' = [rl EXCEPT !.pc = "laser_write",
                                !.particle_distances =
                                  [i \in Indices(particle_cloud) |->
                                     closest[<<particle_cloud[i].x, particle_cloud[i].y>>]],
                                !.robot_distance = robot_distance,
                                !.weights = LaserWeights(errors),
                                !.stages = Append(rl.stages, "laser")]
  /\ UNCHANGED << shared, nscans, ninit, odom, moves, preemptive, cb >>

\* update_particles_with_laser, lines 269-273: the weights are stored into the
\* population as it is now; weights[i] past the end raises IndexError
LaserWrite ==
  /\ RlTurn
  /\ rl.pc = "laser_write"
  /\ LET n == Len(particle_cloud)
         m == Len(rl.weights)
         written == [i \in 1 .. n |->
                       IF i <= m
                       THEN [particle_cloud[i] EXCEPT !.w = StoredWeight(rl.weights[i])]
                       ELSE particle_cloud[i]]
     IN /\ particle_cloud' = written
        /\ IF n > m
           THEN rl' = [rl EXCEPT !.pc = "dead", !.last = "raised"]
           ELSE rl' = [rl EXCEPT !.pc = AfterStage("laser"), !.weights = <<>>,
                                 !.measured = written]
  /\ UNCHANGED << scan_to_process, last_scan_timestamp, current_odom_xy_theta,
                  odom_pose, robot_pose, map_to_odom, warned, published, tf,
                  nscans, ninit, odom, moves, preemptive, cb >>

\* update_robot_pose as a stage of the update, line 162
PoseStage ==
  /\ RlTurn
  /\ rl.pc = "pose"
  /\ IF PoseRaises
     THEN /\ rl' = [rl EXCEPT !.pc = "dead", !.last = "raised",
                              !.stages = Append(rl.stages, "pose")]
          /\ UNCHANGED << robot_pose, map_to_odom, warned >>
     ELSE /\ rl' = [rl EXCEPT !.pc = AfterStage("pose"),
                              !.particle_distances = <<>>, !.robot_distance = 0,
                              !.stages = Append(rl.stages, "pose")]
          /\ UpdateRobotPose
  /\ UNCHANGED << scan_to_process, last_scan_timestamp, particle_cloud,
                  current_odom_xy_theta, odom_pose, published, tf,
                  nscans, ninit, odom, moves, preemptive, cb >>

\* whether resample_particles raises: np.percentile and np.random.choice on
\* an empty array, or probabilities that do not sum to 1 (line 239)
ResampleRaises(cloud) == cloud = <<>> \/ ~ChoiceAccepts(Weights(cloud))

\* resample_particles, lines 233-246
ResampleParticles ==
  /\ RlTurn
  /\ rl.pc = "resample"
  /\ IF ResampleRaises(particle_cloud)
     THEN /\ rl' = [rl EXCEPT !.pc = "dead", !.last = "raised",
                              !.stages = Append(rl.stages, "resample")]
          /\ UNCHANGED particle_cloud
     ELSE LET weights == Weights(particle_cloud)
              i_particles_to_replace == ToReplace(weights)
              num_replace == Len(i_particles_to_replace)
          IN \E i_new_locations \in [1 .. num_replace -> Drawable(weights)] :
             \E noise \in [1 .. num_replace -> Perturbations] :
               /\ particle_cloud' = Overwrite(particle_cloud, i_particles_to_replace,
                                              i_new_locations, noise, 1)
               /\ rl' = [rl EXCEPT !.pc = AfterStage("resample"),
                                   !.i_new_locations = i_new_locations,
                                   !.noise = noise,
                                   !.stages = Append(rl.stages, "resample")]
  /\ UNCHANGED << scan_to_process, last_scan_timestamp, current_odom_xy_theta,
                  odom_pose, robot_pose, map_to_odom, warned, published, tf,
                  nscans, ninit, odom, moves, preemptive, cb >>

\* publish_particles(msg.header.stamp), line 165, and the return to loop_wrapper
PublishParticles ==
  /\ RlTurn
  /\ rl.pc = "publish"
  /\ published' = [count |-> published.count + 1, stamp |-> rl.msg,
                   particles |-> particle_cloud]
  /\ rl' = RlIdle(rl.branch)
  /\ UNCHANGED << scan_to_process, last_scan_timestamp, particle_cloud,
                  current_odom_xy_theta, odom_pose, robot_pose, map_to_odom,
                  warned, tf, nscans, ninit, odom, moves, preemptive, cb >>

(***************************************************************************)
(* The specifications.                                                     *)
(***************************************************************************)
Next ==
  \/ ScanReceived
  \/ ScanStore
  \/ UpdateInitialPose
  \/ CbInitAppend
  \/ CbInitPose
  \/ RunLoopNoScan
  \/ RunLoopLookup
  \/ RunLoopConvert
  \/ RunLoopBranch
  \/ RlInitClear
  \/ RlInitAppend
  \/ RlInitPose
  \/ UpdateParticlesWithOdom
  \/ UpdateParticlesWithLaser
  \/ LaserWrite
  \/ PoseStage
  \/ ResampleParticles
  \/ PublishParticles
  \/ TfUpdate
  \/ RobotMoves

\* every operation (a callback, a call of run_loop) runs to its end before
\* the other thread takes a step
Init == Constructed /\ preemptive = FALSE
Spec == Init /\ [][Next]_vars

\* the threads as the code runs them, without a lock: any step of one may
\* follow any step of the other
ConcInit == Constructed /\ preemptive = TRUE
ConcSpec == ConcInit /\ [][Next]_vars

(***************************************************************************)
(* update_particles_with_odom on its own: the method is entered with a     *)
(* population seeded around any mean pose and published, and with the      *)
(* odometry pose of the cycle equal to the reference, a call run_loop does  *)
(* not make (it calls the method only past the thresholds).                *)
(***************************************************************************)
\* the mean poses the population was seeded around
MotionMeans == { <<x, 0, t>> : x \in {0, 1}, t \in (-Pi) .. (Pi - 1) }

\* the population initialize_particle_cloud builds around a mean pose
Seeded(mean) == [i \in 1 .. RangeEnd |-> SeedParticle(mean, i - 1)]

MotionInit ==
  \E mean \in MotionMeans, pose \in OdomPoses :
    /\ particle_cloud = Seeded(mean)
    /\ current_odom_xy_theta = pose
    /\ odom_pose = pose
    /\ odom = pose
    /\ robot_pose = as_pose(Seeded(mean)[1])
    /\ map_to_odom = <<as_pose(Seeded(mean)[1]), pose>>
    /\ published = [count |-> 2, stamp |-> 2, particles |-> Seeded(mean)]
    /\ rl = [RlIdle("resolved") EXCEPT !.pc = "odom", !.msg = 3, !.new = pose,
                                        !.branch = "update"]
    /\ scan_to_process = None
    /\ last_scan_timestamp = 3
    /\ nscans = 3
    /\ ninit = 1
    /\ moves = 0
    /\ tf = NoTf
    /\ warned = FALSE
    /\ cb = CbIdle
    /\ preemptive = FALSE

MotionNext == UpdateParticlesWithOdom

MotionSpec == MotionInit /\ [][MotionNext]_vars

(***************************************************************************)
(* Properties.                                                             *)
(***************************************************************************)
Quiet == RlQuiet /\ CbQuiet

\* the run-loop thread, or the executor thread, takes its step from pc
RlAt(pc) == rl.pc = pc /\ rl' # rl
CbAt(pc) == cb.pc = pc /\ cb' # cb

\* the population initialize_particle_cloud is to build around a mean pose
Fan(mean) ==
  [i \in 1 .. n_particles |->
     [x |-> mean[1], y |-> mean[2],
      theta |-> mean[3] + ((i - 1) * TwoPi) \div n_particles, w |-> <<1, 1>>]]

\* C1: under every interleaving of the two threads, a scan delivered to
\* scan_received while the slot holds a scan is dropped and the slot keeps the
\* earlier scan; the slot only ever takes a scan when it is empty.
C1_AtMostOneInFlight ==
  [][ /\ (nscans' = nscans + 1 /\ scan_to_process # None)
         => (scan_to_process' = scan_to_process /\ cb'.pc = "idle")
      /\ (scan_to_process' # scan_to_process /\ scan_to_process' # None)
         => scan_to_process = None ]_vars

\* a later scan was delivered and dropped while the slot holds an earlier one
C1_Witness ==
  /\ scan_to_process # None
  /\ last_scan_timestamp > scan_to_process
  /\ cb.pc = "idle"

\* a call of run_loop that found a scan and got no pose for it
PolledWithoutPose ==
  /\ rl.pc = "idle"
  /\ rl'.pc = "idle"
  /\ scan_to_process # None
  /\ (rl' # rl \/ scan_to_process' # scan_to_process)

\* C2: when run_loop polls a pending scan and the lookup returns no pose, a
\* negative staleness discards the scan, and an absent or non-negative one
\* leaves it in the slot for the next poll; in both cases the population, the
\* odometry reference, the best pose and the publications stay as they are.
C2_LookupWithoutPose ==
  [][ PolledWithoutPose =>
        /\ IF rl'.delta_t.has /\ rl'.delta_t.v < 0
           THEN scan_to_process' = None /\ rl'.last = "expired"
           ELSE scan_to_process' = scan_to_process /\ rl'.last = "retry"
        /\ (tf.st = "expired") = (rl'.delta_t.has /\ rl'.delta_t.v < 0)
        /\ UNCHANGED << particle_cloud, current_odom_xy_theta, odom_pose,
                        robot_pose, map_to_odom, published >> ]_vars

\* the first scan was discarded (nothing was ever published, so it was never
\* resolved) and the second one is being retried
C2_Witness ==
  /\ rl.last = "retry"
  /\ rl.pc = "idle"
  /\ scan_to_process = 2
  /\ published.count = 0

\* C3: a pending scan whose transform is resolvable or reported expired
\* eventually leaves the slot.  Only run_loop empties the slot (C1), so for
\* that the run-loop thread must still be running whenever such a scan is
\* pending: a state with such a scan and the thread ended is one the scan
\* never leaves.
C3_PendingScanLeaves ==
  (scan_to_process # None /\ tf.st \in {"ok", "expired"}) => rl.pc # "dead"

\* C4: with no odometry reference, a resolved scan only records the reference
\* and leaves the population as it is; with a reference and an empty
\* population, the resolved scan seeds exactly n_particles particles at its
\* odometry pose and leaves the reference as it is; seeding by a scan never
\* starts while there is no reference.
C4_StartUpOrder ==
  /\ [][ (RlAt("branch") /\ current_odom_xy_theta = NoPose)
           => /\ current_odom_xy_theta' = rl.new
              /\ particle_cloud' = particle_cloud
              /\ rl'.pc = "publish" ]_vars
  /\ [][ (RlAt("branch") /\ current_odom_xy_theta # NoPose /\ particle_cloud = <<>>)
           => rl'.pc = "init_clear" /\ UNCHANGED current_odom_xy_theta ]_vars
  /\ [][ rl.pc \in {"init_clear", "init_append", "init_pose"}
           => /\ current_odom_xy_theta # NoPose
              /\ UNCHANGED current_odom_xy_theta ]_vars
  /\ [][ (RlAt("init_pose") /\ rl'.pc = "publish")
           => /\ Len(particle_cloud') = n_particles
              /\ \A i \in 1 .. n_particles :
                   /\ particle_cloud'[i].x = rl.new[1]
                   /\ particle_cloud'[i].y = rl.new[2] ]_vars
  /\ [](published.count = 1 /\ ninit = 0 /\ Quiet =>
          particle_cloud = <<>> /\ current_odom_xy_theta # NoPose)
  /\ [](published.count = 2 /\ ninit = 0 /\ Quiet =>
          Len(particle_cloud) = n_particles)

\* the second resolved scan has seeded the population away from the reference
C4_Witness ==
  /\ published.count = 2
  /\ ninit = 0
  /\ rl.last = "seed"
  /\ rl.pc = "idle"
  /\ Len(particle_cloud) = n_particles
  /\ particle_cloud[1].x = 3
  /\ current_odom_xy_theta = <<0, 0, 0>>

\* C5: with a reference and a population, the update runs on a resolved scan
\* exactly if |dx| > d_thresh or |dy| > d_thresh or |dtheta| > a_thresh; a
\* displacement of exactly d_thresh in x alone does not start it.
C5_StrictThresholds ==
  [][ (RlAt("branch") /\ current_odom_xy_theta # NoPose /\ particle_cloud # <<>>)
        => LET dx == rl.new[1] - current_odom_xy_theta[1]
               dy == rl.new[2] - current_odom_xy_theta[2]
               dt == rl.new[3] - current_odom_xy_theta[3]
               far == \/ dx > d_thresh \/ -dx > d_thresh
                      \/ dy > d_thresh \/ -dy > d_thresh
                      \/ dt > a_thresh \/ -dt > a_thresh
           IN /\ (rl'.pc = "odom") = far
              /\ (rl'.pc = "publish") = ~far
              /\ (dx = d_thresh /\ dy = 0 /\ dt = 0) => rl'.branch = "skip" ]_vars

\* a scan displaced by exactly d_thresh in x alone was skipped
C5_Witness ==
  /\ rl.pc = "publish"
  /\ rl.branch = "skip"
  /\ particle_cloud # <<>>
  /\ rl.new[1] - current_odom_xy_theta[1] = d_thresh
  /\ rl.new[2] = current_odom_xy_theta[2]
  /\ rl.new[3] = current_odom_xy_theta[3]

Pipeline == <<"odom", "laser", "pose", "resample">>

\* s is an initial part of t
IsPrefix(s, t) == Len(s) <= Len(t) /\ \A k \in 1 .. Len(s) : s[k] = t[k]

\* pose is the pose of a particle of cloud that no particle outweighs
IsBestOf(pose, cloud) ==
  \E i \in 1 .. Len(cloud) :
    /\ \A j \in 1 .. Len(cloud) : cloud[j].w[1] * cloud[i].w[2] <= cloud[i].w[1] * cloud[j].w[2]
    /\ pose[1] = cloud[i].x
    /\ pose[2] = cloud[i].y
    /\ (pose[3] - cloud[i].theta) % (2 * TwoPi) = 0

\* C6: the stages of an update are entered once each in the order motion
\* update, measurement update, pose estimate, resampling; the best pose of the
\* cycle is that of a maximum-weight particle of the population as the
\* measurement update left it, which resampling has not yet touched.
C6_PipelineOrder ==
  /\ IsPrefix(rl.stages, Pipeline)
  /\ (rl.branch = "update" /\ rl.pc \in {"publish", "dead"}) => rl.stages = Pipeline
  /\ (rl.pc = "resample" \/ (rl.branch = "update" /\ rl.pc = "publish"))
       => IsBestOf(robot_pose, rl.measured)
  /\ rl.pc = "resample" => particle_cloud = rl.measured

\* an update has run all its stages and resampling has moved the particle
\* the best pose was taken from
C6_Witness ==
  /\ rl.pc = "publish"
  /\ rl.stages = Pipeline
  /\ particle_cloud # rl.measured
  /\ ~IsBestOf(robot_pose, particle_cloud)

\* C7: between operations the population holds 0 particles (only before
\* the first seeding) or exactly n_particles; the stages of an update never
\* change the number of particles.
C7_PopulationSize ==
  /\ [](Quiet => Len(particle_cloud) \in {0, n_particles})
  /\ [](Quiet /\ robot_pose # NoPose => Len(particle_cloud) = n_particles)
  /\ [][ rl.pc \in {"odom", "laser", "laser_write", "pose", "resample"}
           => Len(particle_cloud') = Len(particle_cloud) ]_vars
  /\ [][ Len(particle_cloud) = n_particles /\ Quiet /\ Quiet'
           => Len(particle_cloud') = n_particles ]_vars

\* an update has resampled the population and the size is n_particles
C7_Witness ==
  /\ Quiet
  /\ rl.last = "update"
  /\ rl.pc = "idle"
  /\ Len(particle_cloud) = n_particles
  /\ \E i \in 1 .. Len(particle_cloud) : particle_cloud[i].w # <<1, 1>>

\* C8: no error ends the run loop: whatever the scans and the map answer,
\* every update runs to its end and run_loop is called again.
C8_NeverFatal == rl.pc # "dead"

\* the run-loop thread takes a step of an update cycle from one of these
InUpdate(pcs) == rl.branch = "update" /\ rl.pc \in pcs /\ rl' # rl

\* C9: whatever the interleaving of a re-initialization with an update cycle,
\* a stage of the cycle (and its publication) finds a population that is
\* neither empty nor partly rebuilt, and of the size the stage saw before.
C9_NoRaceOnPopulation ==
  [][ /\ InUpdate({"odom", "laser", "laser_write", "pose", "resample", "publish"})
         => Len(particle_cloud) >= n_particles
      /\ InUpdate({"laser_write"})
         => Len(particle_cloud) = Len(rl.weights) ]_vars

\* C10: initialization and re-initialization with a mean pose leave exactly
\* n_particles particles, particle i at the mean position with heading
\* theta0 + i * 2*pi/n_particles and weight 1, whatever the population was
\* before; without a mean pose the mean is the current odometry pose.
C10_InitializedCloud ==
  /\ [][ (CbAt("ip_pose") /\ cb'.pc = "idle") => particle_cloud' = Fan(cb.xy) ]_vars
  /\ [][ (RlAt("init_pose") /\ rl'.pc = "publish")
           => particle_cloud' = Fan(odom_pose) /\ odom_pose = rl.new ]_vars
  /\ [][ UpdateInitialPose => cb'.xy \in InitPoses ]_vars

\* a re-initialization has replaced a population that had been updated
C10_Witness ==
  /\ Quiet
  /\ ninit = 1
  /\ particle_cloud = Fan(<<1, 0, 9>>)
  /\ published.particles # <<>>
  /\ published.particles # particle_cloud
  /\ rl.last = "update"

\* particle i of cloud has the maximum weight and the lowest index among ties
IsFirstBest(cloud, i) ==
  /\ \A j \in 1 .. Len(cloud) :
       cloud[j].w[1] * cloud[i].w[2] <= cloud[i].w[1] * cloud[j].w[2]
  /\ \A j \in 1 .. (i - 1) :
       cloud[j].w[1] * cloud[i].w[2] < cloud[i].w[1] * cloud[j].w[2]

\* the pose message of a particle: its x, y and the rotation by its theta
PoseOf(p) == <<p.x, p.y, p.theta % (2 * TwoPi)>>

\* a step in which update_robot_pose runs
PoseEstimated ==
  RlAt("pose") \/ RlAt("init_pose") \/ CbAt("ip_pose")

\* C11: update_robot_pose sets the best pose to the pose of a particle of the
\* population as it is then, the one of maximum weight with the lowest index
\* among ties; right after an initialization or a re-initialization that is
\* particle 0, the mean pose.
C11_BestPoseIsFirstMaximum ==
  /\ [][ PoseEstimated =>
           \E i \in 1 .. Len(particle_cloud) :
             /\ IsFirstBest(particle_cloud, i)
             /\ robot_pose' = PoseOf(particle_cloud[i]) ]_vars
  /\ [][ CbAt("ip_pose") => robot_pose' = PoseOf(Particle(cb.xy[1], cb.xy[2], cb.xy[3])) ]_vars
  /\ [][ RlAt("init_pose") => robot_pose' = PoseOf(Particle(rl.new[1], rl.new[2], rl.new[3])) ]_vars

\* the measurement update left the second particle the heavier one and the
\* best pose is its pose, not the first particle's
C11_Witness ==
  /\ rl.pc = "resample"
  /\ Len(particle_cloud) >= 2
  /\ ~IsFirstBest(particle_cloud, 1)
  /\ IsFirstBest(particle_cloud, 2)
  /\ robot_pose = PoseOf(particle_cloud[2])
  /\ robot_pose # PoseOf(particle_cloud[1])

\* the error the weight function is to use for a map answer: 5 distance units
\* for an unknown distance, else its distance from the observed range
ErrorFor(dist, range) ==
  IF dist[2] = 0 THEN 50
  ELSE IF dist[1] >= range THEN dist[1] - range ELSE range - dist[1]

\* the product of the numbers of a sequence
RECURSIVE Product(_)
Product(s) == IF s = <<>> THEN 1 ELSE s[1] * Product(Tail(s))

\* the sum of the numbers of a sequence
RECURSIVE Total(_)
Total(s) == IF s = <<>> THEN 0 ELSE s[1] + Total(Tail(s))

\* a weight that is a defined, finite, non-negative number
IsFiniteWeight(w) == w[2] > 0 /\ w[1] >= 0

\* the step that stores the weights of a measurement update
WeightsStored == RlAt("laser_write") /\ rl'.pc # "dead"

\* C12: after a measurement update every weight is a defined, finite,
\* non-negative number: where error_0/error_i or the normalization is
\* undefined the weight stored is exactly 0, else it is the normalized ratio;
\* an unknown map distance counts as an error of 5; with distances 2.0 and
\* 3.0 and an observed range of 2.0 both weights are 0.
C12_WeightsDefined ==
  [][ WeightsStored =>
        LET n == Len(particle_cloud)
            e == [i \in 1 .. n |-> ErrorFor(rl.particle_distances[i], rl.robot_distance)]
            inv == [i \in 1 .. n |->
                      Product([k \in 1 .. (n - 1) |-> IF k < i THEN e[k] ELSE e[k + 1]])]
        IN /\ Len(particle_cloud') = n
           /\ \A i \in 1 .. n :
                /\ IsFiniteWeight(particle_cloud'[i].w)
                /\ IsNaN(rl.weights[i]) => particle_cloud'[i].w = <<0, 1>>
                /\ IF \E k \in 1 .. n : e[k] = 0
                   THEN particle_cloud'[i].w = <<0, 1>>
                   ELSE particle_cloud'[i].w[1] * Total(inv)
                          = particle_cloud'[i].w[2] * inv[i]
           /\ (rl.particle_distances = << <<20, 1>>, <<30, 1>> >> /\ rl.robot_distance = 20)
                => \A i \in 1 .. n : particle_cloud'[i].w = <<0, 1>> ]_vars

\* the scenario of C12 has been measured: distances 2.0 and 3.0, range 2.0,
\* and both weights stored are 0
C12_Witness ==
  /\ rl.pc = "pose"
  /\ rl.particle_distances = << <<20, 1>>, <<30, 1>> >>
  /\ rl.robot_distance = 20
  /\ \A i \in 1 .. Len(particle_cloud) : particle_cloud[i].w = <<0, 1>>

\* the map did not know the distance at the first particle and knew 3.0 at
\* the second, the range was 2.0: the weights stored are 1/6 and 5/6
C12_UnknownDistanceMeasured ==
  /\ rl.pc = "pose"
  /\ rl.particle_distances = << <<0, 0>>, <<30, 1>> >>
  /\ particle_cloud[1].w = <<1, 6>>
  /\ particle_cloud[2].w = <<5, 6>>

\* the displacement of the resolved scan exceeds no threshold
WithinThresholds(new, ref) ==
  /\ new[1] - ref[1] <= d_thresh /\ ref[1] - new[1] <= d_thresh
  /\ new[2] - ref[2] <= d_thresh /\ ref[2] - new[2] <= d_thresh
  /\ new[3] - ref[3] <= a_thresh /\ ref[3] - new[3] <= a_thresh

\* C13: with a reference and a population, a resolved scan displaced by no
\* more than the thresholds leaves every particle, the odometry reference and
\* the best pose as they are, and the population is published once, as it
\* is, with the stamp of that scan.
C13_SkippedCycle ==
  /\ [][ (/\ RlAt("branch")
          /\ current_odom_xy_theta # NoPose
          /\ particle_cloud # <<>>
          /\ WithinThresholds(rl.new, current_odom_xy_theta))
         => /\ rl'.pc = "publish"
            /\ rl'.branch = "skip"
            /\ rl'.msg = rl.msg
            /\ UNCHANGED << particle_cloud, current_odom_xy_theta, robot_pose,
                            published >> ]_vars
  /\ [][ (rl.pc = "publish" /\ rl.branch = "skip")
         => /\ UNCHANGED << particle_cloud, current_odom_xy_theta, robot_pose >>
            /\ \/ UNCHANGED << published, rl >>
               \/ /\ published' = [count |-> published.count + 1,
                                    stamp |-> rl.msg,
                                    particles |-> particle_cloud]
                  /\ rl'.pc = "idle" ]_vars
  /\ [](rl.pc \in {"convert", "branch", "publish"} => rl.msg > published.stamp)

\* the third scan, displaced by exactly a_thresh in heading, was skipped and
\* the population published with its stamp
C13_Witness ==
  /\ rl.pc = "idle"
  /\ rl.last = "skip"
  /\ published.stamp = 3
  /\ published.count = 3
  /\ published.particles = particle_cloud
  /\ particle_cloud # <<>>
  /\ odom_pose[3] - current_odom_xy_theta[3] = a_thresh

\* C14: when update_robot_pose runs for a re-initialization and no odometry
\* pose was ever recorded, the map-to-odom correction is left out and a
\* warning is given, while the population holds n_particles particles, the
\* best pose is set and the callback returns; with an odometry pose the
\* correction is made and no warning given.
C14_NoOdometryYet ==
  /\ [][ (CbAt("ip_pose") /\ odom_pose = NoPose)
         => /\ warned'
            /\ map_to_odom' = map_to_odom
            /\ Len(particle_cloud') = n_particles
            /\ robot_pose' = PoseOf(Particle(cb.xy[1], cb.xy[2], cb.xy[3]))
            /\ cb'.pc = "idle" ]_vars
  /\ [][ (CbAt("ip_pose") /\ odom_pose # NoPose)
         => /\ warned' = warned
            /\ map_to_odom' = <<robot_pose', odom_pose>>
            /\ cb'.pc = "idle" ]_vars
  /\ [](warned => ninit > 0)
  /\ [](odom_pose = NoPose => map_to_odom = NoPose)

\* a re-initialization before the first resolved scan has completed
C14_Witness ==
  /\ cb.pc = "idle"
  /\ ninit = 1
  /\ odom_pose = NoPose
  /\ warned
  /\ map_to_odom = NoPose
  /\ Len(particle_cloud) = n_particles
  /\ robot_pose = <<1, 0, 9>>

\* the step in which resample_particles runs to its end
Resampled == RlAt("resample") /\ rl'.pc # "dead"

\* weight a is above weight b
Above(a, b) == a[1] * b[2] > b[1] * a[2]

\* C15: resampling changes x, y and theta only of particles whose weight is
\* at most the 20th percentile of the weights; a particle above it keeps its
\* x, y and theta, and every particle keeps its weight.
C15_ResampleFrame ==
  [][ Resampled =>
        LET limit == Percentile(Weights(particle_cloud), 20)
        IN /\ Len(particle_cloud') = Len(particle_cloud)
           /\ \A i \in 1 .. Len(particle_cloud) :
                /\ particle_cloud'[i].w = particle_cloud[i].w
                /\ Above(particle_cloud[i].w, limit)
                     => particle_cloud'[i] = particle_cloud[i] ]_vars

\* resampling has moved the light first particle and left the heavy second
\* one, and the weights, as the measurement update stored them
C15_Witness ==
  /\ rl.pc = "publish"
  /\ rl.stages = Pipeline
  /\ Len(particle_cloud) = 2
  /\ Above(particle_cloud[2].w, particle_cloud[1].w)
  /\ particle_cloud[1] # rl.measured[1]
  /\ particle_cloud[1].w = rl.measured[1].w
  /\ particle_cloud[2] = rl.measured[2]

\* the indices resampling replaces, in ascending order, of a population
Replaced(cloud) ==
  LET limit == Percentile(Weights(cloud), 20)
  IN { i \in 1 .. Len(cloud) : ~Above(cloud[i].w, limit) }

\* C16: after resampling the (x, y) of every replaced particle is the (x, y)
\* some drawn donor index had in the population before resampling, whatever
\* the weights and the donors drawn, donors that are replaced themselves
\* included.
C16_PositionsFromDonors ==
  [][ Resampled =>
        /\ Len(rl'.i_new_locations) = Cardinality(Replaced(particle_cloud))
        /\ \A i \in Replaced(particle_cloud) :
             \E k \in 1 .. Len(rl'.i_new_locations) :
               LET d == rl'.i_new_locations[k]
               IN /\ particle_cloud'[i].x = particle_cloud[d].x
                  /\ particle_cloud'[i].y = particle_cloud[d].y ]_vars

\* both particles were replaced, each with the other as its donor, from
\* different positions: the second has taken the position the first had
\* taken from it
C16_Witness ==
  /\ rl.pc = "publish"
  /\ rl.i_new_locations = <<2, 1>>
  /\ <<rl.measured[1].x, rl.measured[1].y>> # <<rl.measured[2].x, rl.measured[2].y>>
  /\ particle_cloud[1].x = rl.measured[2].x
  /\ particle_cloud[1].y = rl.measured[2].y
  /\ particle_cloud[2].x = rl.measured[2].x
  /\ particle_cloud[2].y = rl.measured[2].y

\* the donor index drawn for replaced particle i: the draws are paired with
\* the replaced indices in ascending order
DonorOf(cloud, donors, i) ==
  donors[Cardinality({ j \in Replaced(cloud) : j <= i })]

\* C17: after resampling, a replaced particle whose drawn donor index is d
\* has the (x, y) particle d had before resampling and a theta within pi/4
\* of the theta particle d had before resampling, also when d is replaced
\* itself and was overwritten earlier in the pass.
C17_CopiesOfDonors ==
  [][ Resampled =>
        \A i \in Replaced(particle_cloud) :
          LET d == DonorOf(particle_cloud, rl'.i_new_locations, i)
              turn == particle_cloud'[i].theta - particle_cloud[d].theta
          IN /\ particle_cloud'[i].x = particle_cloud[d].x
             /\ particle_cloud'[i].y = particle_cloud[d].y
             /\ turn <= QuarterPi
             /\ -turn <= QuarterPi ]_vars

\* C18: once set the odometry reference is never cleared; it is set by the
\* first resolved scan to that scan's odometry pose and by every motion
\* update to the odometry pose of its cycle, and by nothing else: seeding,
\* re-initialization, skipped cycles, measurement update, pose estimate and
\* resampling leave it as it is.
C18_OdometryReference ==
  /\ [][ current_odom_xy_theta # NoPose => current_odom_xy_theta' # NoPose ]_vars
  /\ [][ RlAt("odom") => current_odom_xy_theta' = rl.new /\ rl.new = odom_pose ]_vars
  /\ [][ (RlAt("branch") /\ current_odom_xy_theta = NoPose)
           => current_odom_xy_theta' = rl.new /\ rl.new = odom_pose ]_vars
  /\ [][ current_odom_xy_theta' # current_odom_xy_theta
           => \/ RlAt("odom")
              \/ RlAt("branch") /\ current_odom_xy_theta = NoPose ]_vars

\* a motion update has moved the reference to the pose of its scan, and the
\* skipped cycle of the next scan has left it there
C18_Witness ==
  /\ current_odom_xy_theta = <<3, 0, 0>>
  /\ rl.pc = "idle"
  /\ rl.last = "skip"
  /\ published.count = 3
  /\ published.stamp = 3

\* the motion update runs with the odometry pose equal to the reference
IdentityMotion ==
  RlAt("odom") /\ current_odom_xy_theta # NoPose /\ odom_pose = current_odom_xy_theta

\* C19 as stated: a motion update whose delta is the identity leaves x, y
\* and theta of every particle as they are, also for a particle whose
\* heading lies outside (-pi, pi].
C19_IdentityKeepsTheta ==
  [][ IdentityMotion =>
        /\ Len(particle_cloud') = Len(particle_cloud)
        /\ \A i \in 1 .. Len(particle_cloud) :
             /\ particle_cloud'[i].x = particle_cloud[i].x
             /\ particle_cloud'[i].y = particle_cloud[i].y
             /\ particle_cloud'[i].theta = particle_cloud[i].theta ]_vars

\* C19 amended: a motion update whose delta is the identity leaves x and y
\* of every particle as they are and replaces theta by the same angle taken
\* in [-pi, pi]: theta is unchanged modulo 2*pi, and unchanged if it was in
\* [-pi, pi].
C19_IdentityKeepsHeading ==
  [][ IdentityMotion =>
        /\ Len(particle_cloud') = Len(particle_cloud)
        /\ \A i \in 1 .. Len(particle_cloud) :
             /\ particle_cloud'[i].x = particle_cloud[i].x
             /\ particle_cloud'[i].y = particle_cloud[i].y
             /\ (particle_cloud'[i].theta - particle_cloud[i].theta) % TwoPi = 0
             /\ particle_cloud'[i].theta >= -Pi
             /\ particle_cloud'[i].theta <= Pi
             /\ (particle_cloud[i].theta >= -Pi /\ particle_cloud[i].theta <= Pi)
                  => particle_cloud'[i].theta = particle_cloud[i].theta ]_vars

\* the identity motion update has run on a population seeded around heading
\* 3*pi/4: the second particle, seeded at 7*pi/4, is now at -pi/4
C19_Witness ==
  /\ rl.pc = "laser"
  /\ odom_pose = current_odom_xy_theta
  /\ published.particles[2].theta = 21
  /\ particle_cloud[2].theta = -3
  /\ particle_cloud[2].x = published.particles[2].x
  /\ particle_cloud[1] = published.particles[1]

\* the run-loop thread is past line 148 of a cycle: at the branch, in the
\* seeding, in a stage of the update or at the publication
InCycle ==
  rl.pc \in {"branch", "init_clear", "init_append", "init_pose", "odom", "laser",
             "laser_write", "pose", "resample", "publish"}

\* C20: under every interleaving run_loop empties the slot only of the scan
\* it has read, once, and for a resolved scan before the branch and the
\* stages run; a scan accepted while the cycle is running is neither cleared
\* nor overwritten by anything until the cycle has finished, the next poll
\* takes up the scan that is in the slot, and no scan is taken up again once
\* its cycle has been published.
C20_SlotClearedOncePerScan ==
  /\ [][ (scan_to_process # None /\ scan_to_process' = None)
           => \/ RlAt("convert") /\ rl.msg = scan_to_process
              \/ /\ rl.pc = "idle" /\ rl'.pc = "idle" /\ rl'.last = "expired"
                 /\ cb' = cb /\ tf.st = "expired" ]_vars
  /\ [][ RlAt("convert") => scan_to_process' = None /\ rl.msg = scan_to_process ]_vars
  /\ [](InCycle => scan_to_process # rl.msg)
  /\ [][ (InCycle /\ scan_to_process # None) => scan_to_process' = scan_to_process ]_vars
  /\ [][ (RlAt("idle") /\ rl'.pc = "convert")
           => rl'.msg = scan_to_process /\ rl'.msg > published.stamp ]_vars
  /\ [][ RlAt("publish") => rl'.pc = "idle" /\ scan_to_process' = scan_to_process ]_vars

\* the third scan was accepted while the update of the second was running
\* and is in the slot when that update has run all its stages
C20_Witness ==
  /\ rl.pc = "publish"
  /\ rl.stages = Pipeline
  /\ rl.msg = 2
  /\ scan_to_process = 3
  /\ cb.pc = "idle"

====
